---------------------------- MODULE Spec2Model ----------------------------
(***************************************************************************)
(* A model of the lockfree SPSC ring-buffer queue of                       *)
(* src/src/lockfree/queue_detail.hpp.                                      *)
(*                                                                         *)
(* Every member function is modelled at the granularity of its atomic      *)
(* cursor loads, cursor stores, compare-and-swaps and slot accesses: one   *)
(* action per such step, with the calling thread's position in pc and its  *)
(* automatic variables in loc.  All atomics of the source use the default  *)
(* memory order (seq_cst), so interleaving of these steps is the           *)
(* semantics of the code.                                                  *)
(*                                                                         *)
(* History variables (not program state): hist[t], the calls of thread t   *)
(* that have returned, in order; snap[t], the queue as t's call in flight  *)
(* found it (kept for the single-threaded caller).                         *)
(***************************************************************************)
EXTENDS Integers, Sequences, FiniteSets

(* ------------------------------ bounds -------------------------------- *)

\* template parameter queue_size: the capacity N of the queue under check
queue_size == 2

\* pushed values are drawn from 1..MaxVal (0 is the default-constructed value)
MaxVal == 2

\* calls begun in one run of the single-threaded push/pop specification
MaxCalls == 6

\* calls begun in one run of the single-threaded specification of all calls
MaxCallsAll == 5

\* calls begun in one run of the two-thread specification
MaxCallsSPSC == 5

\* calls begun in one run of the specification of clear() under fairness
MaxCallsClear == 4

\* num_tries of the single-threaded caller is drawn from -1 .. MaxTries
MaxTries == 1

\* num_tries of the producer and the consumer is drawn from 1 .. MaxTriesSPSC
MaxTriesSPSC == 2

\* calls begun in one run of the single-threaded specification of the
\* num_tries calls
MaxCallsTries == 3

\* calls begun in one run of the two-thread specification of the num_tries
\* calls
MaxCallsTriesSPSC == 3

\* calls begun in one run of the specification of the timeout calls
MaxCallsTimed == 3

\* the ranges handed to push_range, pop_range and the initializer-list
\* constructor have 0 .. MaxRange elements
MaxRange == 3

\* calls begun in one run of the specification of push_range, the
\* constructor being the first of them
MaxCallsRange == 3

\* calls begun in one run of the specification of pop_range, the constructor
\* being the first of them
MaxCallsPopRange == 4

\* calls begun in one run of the specification of consume_with
MaxCallsConsume == 3

\* push_range_wait and pop_range_wait are given ranges of 0 .. MaxRangeWait
\* elements
MaxRangeWait == 3

\* calls begun in one run of the specification of push_range_wait and
\* pop_range_wait
MaxCallsRangeWait == 4

\* calls begun in one run of the two-thread specification of push, pop and
\* the queries
MaxCallsPlain == 3

\* the calls begun in a two-threaded run with clear()
MaxCallsClearSPSC == 4

\* the calls begun in a two-threaded run whose producer calls clear()
MaxCallsClearProducer == 4

\* the calls begun in a two-threaded run with clear() and size()
MaxCallsCursors == 4

\* the calls begun in a run of both families of calls on two threads
MaxCallsFamily == 2

\* the length of the ranges of the calls of such a run
MaxRangeFamily == 2

(* ------------------------------ constants ----------------------------- *)

buffer_size_ == queue_size + 1

Values == 1 .. MaxVal

Indices == 0 .. (buffer_size_ - 1)

\* the thread (or deferred function) std::async gives the lambda of a
\* timeout call to
Task == "task"

Threads == {"main", "producer", "consumer", Task}

(* ------------------------------- state -------------------------------- *)

VARIABLES
  policy,        \* "no_overwrite" or "overwrite": the Policy base class
  buffer_,       \* std::array<data_type, buffer_size_>
  read_index_,   \* std::atomic<std::size_t>
  write_index_,  \* std::atomic<std::size_t>
  pc,            \* pc[t]: the step thread t is about to take
  loc,           \* loc[t]: the automatic variables of t's call in flight
  out,           \* out[t]: the variable t passes to pop(U&) by reference
  hist,          \* history: hist[t] is the sequence of t's returned calls
  snap           \* history: snap[t] is the queue as t's call in flight found it

vars == <<policy, buffer_, read_index_, write_index_, pc, loc, out, hist, snap>>

shared == <<buffer_, read_index_, write_index_>>

(* ------------------------- queue__base helpers ------------------------ *)

\* next_index wrapping one slot early: the sentinel slot is forgotten
next_index_wraps_at_queue_size(index) ==
  IF index + 1 = queue_size THEN 0 ELSE index + 1

next_index(index) == IF index + 1 = buffer_size_ THEN 0 ELSE index + 1

(* ------------------------------ queries ------------------------------- *)

empty == read_index_ = write_index_

\* full() as the class comment words it: read_index+1 == write_index
full_as_class_comment == next_index(read_index_) = write_index_

full == next_index(write_index_) = read_index_

\* size() without the wrap-around
size_without_modulo == write_index_ - read_index_

size == (buffer_size_ - read_index_ + write_index_) % buffer_size_

(* --------------------------- call bookkeeping ------------------------- *)

\* attempts is history: the calls of Policy::push or Policy::pop begun so far;
\* so is write_index_at_call: the value of write_index_ when clear() was called
DefaultLoc ==
  [op |-> "none", elem |-> 0,
   old_write_index |-> 0, new_write_index |-> 0,
   old_read_index |-> 0, new_read_index |-> 0,
   read_index |-> 0, desired |-> 0,
   i |-> 0, num_tries |-> 0, attempts |-> 0, launch |-> "none",
   range |-> << >>, count |-> 0, write_index_at_call |-> 0]

NoSnapshot ==
  [buffer_ |-> [i \in Indices |-> 0], read_index_ |-> 0, write_index_ |-> 0,
   out |-> 0, size |-> 0, empty |-> TRUE, full |-> FALSE]

\* recorded for the single-threaded caller only: with a second thread running
\* the queue a call finds is no longer the queue it works on
Snapshot(t) ==
  IF t = "main"
    THEN [buffer_ |-> buffer_, read_index_ |-> read_index_,
          write_index_ |-> write_index_, out |-> out[t],
          size |-> size, empty |-> empty, full |-> full]
    ELSE NoSnapshot

InFlight == Cardinality({t \in Threads : pc[t] # "idle"})

RECURSIVE SumLen(_)
SumLen(S) ==
  IF S = {} THEN 0
  ELSE LET t == CHOOSE x \in S : TRUE IN Len(hist[t]) + SumLen(S \ {t})

CallsBegun == SumLen(Threads) + InFlight

\* the call of thread t, with automatic variables l, begins at step first
Call(t, l, first) ==
  /\ pc[t] = "idle"
  /\ pc' = [pc EXCEPT ![t] = first]
  /\ loc' = [loc EXCEPT ![t] = l]
  /\ snap' = [snap EXCEPT ![t] = Snapshot(t)]
  /\ UNCHANGED <<policy, buffer_, read_index_, write_index_, out, hist>>

\* the call of thread t returns ret; val is the element it hands back
Return(t, ret, val) ==
  /\ pc' = [pc EXCEPT ![t] = "idle"]
  /\ loc' = [loc EXCEPT ![t] = DefaultLoc]
  /\ hist' = [hist EXCEPT ![t] =
                Append(@, [op |-> loc[t].op, arg |-> loc[t].elem,
                           ret |-> ret, val |-> val, pre |-> snap[t],
                           auto |-> loc[t]])]
  /\ snap' = [snap EXCEPT ![t] = NoSnapshot]

\* thread t moves to step next with automatic variables l
Goto(t, l, next) ==
  /\ pc' = [pc EXCEPT ![t] = next]
  /\ loc' = [loc EXCEPT ![t] = l]
  /\ UNCHANGED <<hist, snap>>

(* ------------- what the caller of Policy::push/pop does --------------- *)

\* the no_overwrite policy given the push of the overwrite specialisation
PolicyPushEntry_overwrite == "ow_load_read"

\* Policy::push: the overwrite specialisation defines its own push, the
\* no_overwrite one forwards to queue__base::push
PolicyPushEntry ==
  IF policy = "overwrite" THEN "ow_load_read" ELSE "push_load_write"

\* push_range going on to ++count where it should break
PushFailed_range_goes_on(t) ==
  CASE loc[t].op \in {"push_wait", "task_push_wait", "push_range_wait"} ->
         Goto(t, loc[t], PolicyPushEntry)
    [] loc[t].op = "push_wait_for" ->
         Goto(t, [loc[t] EXCEPT !.i = @ + 1], "push_wait_for_loop")
    [] loc[t].op \in {"push_range", "queue"} ->
         Goto(t, [loc[t] EXCEPT !.count = @ + 1], "push_range_loop")
    [] OTHER -> Return(t, FALSE, 0)

\* Policy::push returned false to thread t: push returns false, push_wait
\* calls it again, push_wait_for(elem, num_tries) goes to its ++i,
\* push_range (also when the constructor calls it) breaks and returns count;
\* the push_wait of push_range_wait calls it again
PushFailed(t) ==
  CASE loc[t].op \in {"push_wait", "task_push_wait", "push_range_wait"} ->
         Goto(t, loc[t], PolicyPushEntry)
    [] loc[t].op = "push_wait_for" ->
         Goto(t, [loc[t] EXCEPT !.i = @ + 1], "push_wait_for_loop")
    [] loc[t].op \in {"push_range", "queue"} -> Return(t, loc[t].count, 0)
    [] OTHER -> Return(t, FALSE, 0)

\* Policy::push returned true to thread t; the lambda of the timeout call
\* goes on to its return elem, push_range to its ++count, push_range_wait
\* to its ++first
PushSucceeded(t) ==
  CASE loc[t].op = "task_push_wait" -> Goto(t, loc[t], "task_done")
    [] loc[t].op \in {"push_range", "queue"} ->
         Goto(t, [loc[t] EXCEPT !.count = @ + 1], "push_range_loop")
    [] loc[t].op = "push_range_wait" ->
         Goto(t, [loc[t] EXCEPT !.count = @ + 1], "push_range_wait_loop")
    [] OTHER -> Return(t, TRUE, 0)

\* Policy::pop returned false to thread t: pop(U&) returns false, pop()
\* returns std::nullopt, pop_wait calls it again, pop_wait_for(elem,
\* num_tries) goes to its ++i, pop_range breaks and returns count
PopFailed(t) ==
  CASE loc[t].op \in {"pop_wait", "task_pop_wait", "pop_range_wait"} ->
         Goto(t, loc[t], "pop_load_read")
    [] loc[t].op = "pop_wait_for" ->
         Goto(t, [loc[t] EXCEPT !.i = @ + 1], "pop_wait_for_loop")
    [] loc[t].op = "pop_range" -> Return(t, loc[t].count, 0)
    [] OTHER -> Return(t, FALSE, 0)

\* what the reference parameter elem of Policy::pop refers to: the caller's
\* variable, or the local elem of pop() or of the lambda of the timeout call
PopTargetIsLocal(t) == loc[t].op \in {"pop_opt", "task_pop_wait"}

\* Policy::pop returned true to thread t, having moved val into elem; the
\* lambda of the timeout call goes on to its return elem; the elem of
\* pop_range is *(first+count), and it goes on to its ++count; the elem of
\* pop_range_wait is *first, and it goes on to its ++first
PopSucceeded(t, val) ==
  CASE loc[t].op = "task_pop_wait" ->
         /\ UNCHANGED out
         /\ Goto(t, [loc[t] EXCEPT !.elem = val], "task_done")
    [] loc[t].op = "pop_range" ->
         /\ UNCHANGED out
         /\ Goto(t, [loc[t] EXCEPT !.range[loc[t].count + 1] = val,
                                   !.count = @ + 1],
                 "pop_range_loop")
    [] loc[t].op = "pop_range_wait" ->
         /\ UNCHANGED out
         /\ Goto(t, [loc[t] EXCEPT !.range[loc[t].count + 1] = val,
                                   !.count = @ + 1],
                 "pop_range_wait_loop")
    [] OTHER ->
         /\ out' = IF PopTargetIsLocal(t) THEN out
                   ELSE [out EXCEPT ![t] = val]
         /\ Return(t, TRUE, val)

(* ------------------------- queue__base::push -------------------------- *)

\* auto old_write_index = write_index_.load();
\* auto new_write_index = next_index(old_write_index);
base_push_load_write(t) ==
  /\ pc[t] = "push_load_write"
  /\ Goto(t, [loc[t] EXCEPT !.old_write_index = write_index_,
                            !.new_write_index = next_index(write_index_)],
          "push_check_full")
  /\ UNCHANGED <<policy, buffer_, read_index_, write_index_, out>>

\* the full test loading write_index_ where it should load read_index_
base_push_check_full_loads_write(t) ==
  /\ pc[t] = "push_check_full"
  /\ IF loc[t].new_write_index = write_index_
       THEN PushFailed(t)
       ELSE Goto(t, loc[t], "push_store_slot")
  /\ UNCHANGED <<policy, buffer_, read_index_, write_index_, out>>

\* if (new_write_index == read_index_.load()) { return false; }
base_push_check_full(t) ==
  /\ pc[t] = "push_check_full"
  /\ IF loc[t].new_write_index = read_index_
       THEN PushFailed(t)
       ELSE Goto(t, loc[t], "push_store_slot")
  /\ UNCHANGED <<policy, buffer_, read_index_, write_index_, out>>

\* buffer_[old_write_index] = std::forward<U>(elem);
base_push_store_slot(t) ==
  /\ pc[t] = "push_store_slot"
  /\ buffer_' = [buffer_ EXCEPT ![loc[t].old_write_index] = loc[t].elem]
  /\ Goto(t, loc[t], "push_publish")
  /\ UNCHANGED <<policy, read_index_, write_index_, out>>

\* write_index_.store(new_write_index); return true;
base_push_publish(t) ==
  /\ pc[t] = "push_publish"
  /\ write_index_' = loc[t].new_write_index
  /\ PushSucceeded(t)
  /\ UNCHANGED <<policy, buffer_, read_index_, out>>

\* push publishing write_index_ before it stores the element
base_push_publishes_first(t) ==
  \/ base_push_load_write(t)
  \/ base_push_check_full(t)
  \/ /\ pc[t] = "push_store_slot"
     /\ write_index_' = loc[t].new_write_index
     /\ Goto(t, loc[t], "push_publish")
     /\ UNCHANGED <<policy, buffer_, read_index_, out>>
  \/ /\ pc[t] = "push_publish"
     /\ buffer_' = [buffer_ EXCEPT ![loc[t].old_write_index] = loc[t].elem]
     /\ PushSucceeded(t)
     /\ UNCHANGED <<policy, read_index_, write_index_, out>>

base_push(t) ==
  \/ base_push_load_write(t)
  \/ base_push_check_full(t)
  \/ base_push_store_slot(t)
  \/ base_push_publish(t)

(* -------------------------- queue__base::pop -------------------------- *)

\* auto old_read_index = read_index_.load();
\* auto new_read_index = next_index(old_read_index);
base_pop_load_read(t) ==
  /\ pc[t] = "pop_load_read"
  /\ Goto(t, [loc[t] EXCEPT !.old_read_index = read_index_,
                            !.new_read_index = next_index(read_index_)],
          "pop_check_empty")
  /\ UNCHANGED <<policy, buffer_, read_index_, write_index_, out>>

\* the empty test made on the new read index instead of the old one
base_pop_check_empty_new_index(t) ==
  /\ pc[t] = "pop_check_empty"
  /\ IF loc[t].new_read_index = write_index_
       THEN PopFailed(t)
       ELSE Goto(t, loc[t], "pop_publish")
  /\ UNCHANGED <<policy, buffer_, read_index_, write_index_, out>>

\* if (old_read_index == write_index_.load()) { return false; }
base_pop_check_empty(t) ==
  /\ pc[t] = "pop_check_empty"
  /\ IF loc[t].old_read_index = write_index_
       THEN PopFailed(t)
       ELSE Goto(t, loc[t], "pop_publish")
  /\ UNCHANGED <<policy, buffer_, read_index_, write_index_, out>>

\* read_index_.store(new_read_index);
base_pop_publish(t) ==
  /\ pc[t] = "pop_publish"
  /\ read_index_' = loc[t].new_read_index
  /\ Goto(t, loc[t], "pop_move_slot")
  /\ UNCHANGED <<policy, buffer_, write_index_, out>>

\* pop reading the slot at the new read index
base_pop_move_slot_new_index(t) ==
  /\ pc[t] = "pop_move_slot"
  /\ PopSucceeded(t, buffer_[loc[t].new_read_index])
  /\ UNCHANGED <<policy, buffer_, read_index_, write_index_>>

\* elem = std::move(buffer_[old_read_index]); return true;
\* (data_type is a trivially copyable value: the move leaves the slot as it is)
base_pop_move_slot(t) ==
  /\ pc[t] = "pop_move_slot"
  /\ PopSucceeded(t, buffer_[loc[t].old_read_index])
  /\ UNCHANGED <<policy, buffer_, read_index_, write_index_>>

base_pop(t) ==
  \/ base_pop_load_read(t)
  \/ base_pop_check_empty(t)
  \/ base_pop_publish(t)
  \/ base_pop_move_slot(t)

(* ------------- data_write_policy_t<Base, overwrite>::push ------------- *)

\* auto old_read_index = this->read_index_.load();
\* auto new_read_index = next_index(old_read_index);
overwrite_push_load_read(t) ==
  /\ pc[t] = "ow_load_read"
  /\ Goto(t, [loc[t] EXCEPT !.old_read_index = read_index_,
                            !.new_read_index = next_index(read_index_)],
          "ow_cas")
  /\ UNCHANGED <<policy, buffer_, read_index_, write_index_, out>>

\* compare_exchange_weak leaving its expected value as it was when it fails
overwrite_push_cas_keeps_expected(t) ==
  /\ pc[t] = "ow_cas"
  /\ \/ /\ read_index_ = loc[t].old_read_index
        /\ read_index_' = loc[t].new_read_index
        /\ Goto(t, loc[t], "ow_store_slot")
     \/ /\ UNCHANGED read_index_
        /\ Goto(t, loc[t], "ow_cas")
  /\ UNCHANGED <<policy, buffer_, write_index_, out>>

\* while(! this->read_index_.compare_exchange_weak(old_read_index, new_read_index) );
\* the weak form may fail although the values compare equal; a failure
\* loads the current value into old_read_index
overwrite_push_cas(t) ==
  /\ pc[t] = "ow_cas"
  /\ \/ /\ read_index_ = loc[t].old_read_index
        /\ read_index_' = loc[t].new_read_index
        /\ Goto(t, loc[t], "ow_store_slot")
     \/ /\ UNCHANGED read_index_
        /\ Goto(t, [loc[t] EXCEPT !.old_read_index = read_index_], "ow_cas")
  /\ UNCHANGED <<policy, buffer_, write_index_, out>>

\* this->buffer_[old_read_index] = std::forward<U>(elem);
overwrite_push_store_slot(t) ==
  /\ pc[t] = "ow_store_slot"
  /\ buffer_' = [buffer_ EXCEPT ![loc[t].old_read_index] = loc[t].elem]
  /\ Goto(t, loc[t], "ow_publish")
  /\ UNCHANGED <<policy, read_index_, write_index_, out>>

\* this->write_index_.store(old_read_index); return true;
overwrite_push_publish(t) ==
  /\ pc[t] = "ow_publish"
  /\ write_index_' = loc[t].old_read_index
  /\ PushSucceeded(t)
  /\ UNCHANGED <<policy, buffer_, read_index_, out>>

overwrite_push(t) ==
  \/ overwrite_push_load_read(t)
  \/ overwrite_push_cas(t)
  \/ overwrite_push_store_slot(t)
  \/ overwrite_push_publish(t)

(* -------------------- queue::empty, full and size --------------------- *)

\* size() computed as write index minus read index, without the wrap-around
QueryResult_without_modulo(op, r, w) ==
  CASE op = "empty" -> r = w
    [] op = "full" -> next_index(w) = r
    [] op = "size" -> w - r

\* what the query computes from the values r and w it loaded from
\* read_index_ and write_index_
QueryResult(op, r, w) ==
  CASE op = "empty" -> r = w
    [] op = "full" -> next_index(w) = r
    [] op = "size" -> (buffer_size_ - r + w) % buffer_size_

\* bool empty(), bool full(), std::size_t size()
call_query(t, op) ==
  Call(t, [DefaultLoc EXCEPT !.op = op], "query_load")

\* the two loads are operands of one expression: which is made first is
\* unspecified
query_load(t) ==
  /\ pc[t] = "query_load"
  /\ \/ Goto(t, [loc[t] EXCEPT !.old_read_index = read_index_],
             "query_load_write")
     \/ Goto(t, [loc[t] EXCEPT !.old_write_index = write_index_],
             "query_load_read")
  /\ UNCHANGED <<policy, buffer_, read_index_, write_index_, out>>

\* this->write_index_.load(), the second load; return ...
query_load_write(t) ==
  /\ pc[t] = "query_load_write"
  /\ LET l == [loc[t] EXCEPT !.old_write_index = write_index_]
     IN  Return(t, QueryResult(l.op, l.old_read_index, l.old_write_index), 0)
  /\ UNCHANGED <<policy, buffer_, read_index_, write_index_, out>>

\* this->read_index_.load(), the second load; return ...
query_load_read(t) ==
  /\ pc[t] = "query_load_read"
  /\ LET l == [loc[t] EXCEPT !.old_read_index = read_index_]
     IN  Return(t, QueryResult(l.op, l.old_read_index, l.old_write_index), 0)
  /\ UNCHANGED <<policy, buffer_, read_index_, write_index_, out>>

query(t) ==
  \/ query_load(t)
  \/ query_load_write(t)
  \/ query_load_read(t)

(* ---------------------------- queue::clear ---------------------------- *)

\* auto read_index = this->read_index_.load();
clear_load_read(t) ==
  /\ pc[t] = "clear_load_read"
  /\ Goto(t, [loc[t] EXCEPT !.read_index = read_index_], "clear_load_write")
  /\ UNCHANGED <<policy, buffer_, read_index_, write_index_, out>>

\* clear() loading read_index_ where it should load write_index_
clear_load_write_loads_read(t) ==
  /\ pc[t] = "clear_load_write"
  /\ Goto(t, [loc[t] EXCEPT !.desired = read_index_], "clear_cas")
  /\ UNCHANGED <<policy, buffer_, read_index_, write_index_, out>>

\* the argument this->write_index_.load() of compare_exchange_weak
clear_load_write(t) ==
  /\ pc[t] = "clear_load_write"
  /\ Goto(t, [loc[t] EXCEPT !.desired = write_index_], "clear_cas")
  /\ UNCHANGED <<policy, buffer_, read_index_, write_index_, out>>

\* clear() setting both cursors back to slot 0
clear_cas_resets_cursors(t) ==
  /\ pc[t] = "clear_cas"
  /\ \/ /\ read_index_ = loc[t].read_index
        /\ read_index_' = 0
        /\ write_index_' = 0
        /\ Return(t, TRUE, 0)
     \/ /\ UNCHANGED <<read_index_, write_index_>>
        /\ Goto(t, [loc[t] EXCEPT !.read_index = read_index_], "clear_load_write")
  /\ UNCHANGED <<policy, buffer_, out>>

\* while (! this->read_index_.compare_exchange_weak(read_index, ...) );
clear_cas(t) ==
  /\ pc[t] = "clear_cas"
  /\ \/ /\ read_index_ = loc[t].read_index
        /\ read_index_' = loc[t].desired
        /\ Return(t, TRUE, 0)
     \/ /\ UNCHANGED read_index_
        /\ Goto(t, [loc[t] EXCEPT !.read_index = read_index_], "clear_load_write")
  /\ UNCHANGED <<policy, buffer_, write_index_, out>>

clear(t) ==
  \/ clear_load_read(t)
  \/ clear_load_write(t)
  \/ clear_cas(t)

(* ------------------------ the calls of class queue -------------------- *)

\* bool push(U && elem) { return Policy::push(std::forward<U>(elem)); }
call_push(t, elem) ==
  Call(t, [DefaultLoc EXCEPT !.op = "push", !.elem = elem], PolicyPushEntry)

\* void push_wait(U && elem) { while (! Policy::push(std::forward<U>(elem)) ); }
call_push_wait(t, elem) ==
  Call(t, [DefaultLoc EXCEPT !.op = "push_wait", !.elem = elem], PolicyPushEntry)

\* bool pop(U & elem) { return Policy::pop(elem); }
call_pop(t) ==
  Call(t, [DefaultLoc EXCEPT !.op = "pop"], "pop_load_read")

\* std::optional<data_type> pop(): auto elem = data_type(); Policy::pop(elem) ? ...
call_pop_opt(t) ==
  Call(t, [DefaultLoc EXCEPT !.op = "pop_opt"], "pop_load_read")

\* void pop_wait(U & elem) { while (! Policy::pop(elem) ); }
call_pop_wait(t) ==
  Call(t, [DefaultLoc EXCEPT !.op = "pop_wait"], "pop_load_read")

\* void clear()
call_clear(t) ==
  Call(t, [DefaultLoc EXCEPT !.op = "clear",
                             !.write_index_at_call = write_index_],
       "clear_load_read")

\* bool push_wait_for(U && elem, int num_tries): auto i = 0
call_push_wait_for(t, elem, num_tries) ==
  Call(t, [DefaultLoc EXCEPT !.op = "push_wait_for", !.elem = elem,
                             !.num_tries = num_tries],
       "push_wait_for_loop")

\* the loop of push_wait_for testing i <= num_tries
push_wait_for_loop_one_more(t) ==
  /\ pc[t] = "push_wait_for_loop"
  /\ IF loc[t].i <= loc[t].num_tries
       THEN Goto(t, [loc[t] EXCEPT !.attempts = @ + 1], PolicyPushEntry)
       ELSE Return(t, FALSE, 0)
  /\ UNCHANGED <<policy, buffer_, read_index_, write_index_, out>>

\* for (...; i<num_tries; ++i) { if (Policy::push(...)) return true; }
\* return false;
push_wait_for_loop(t) ==
  /\ pc[t] = "push_wait_for_loop"
  /\ IF loc[t].i < loc[t].num_tries
       THEN Goto(t, [loc[t] EXCEPT !.attempts = @ + 1], PolicyPushEntry)
       ELSE Return(t, FALSE, 0)
  /\ UNCHANGED <<policy, buffer_, read_index_, write_index_, out>>

\* bool pop_wait_for(data_type & elem, int num_tries): auto i = 0
call_pop_wait_for(t, num_tries) ==
  Call(t, [DefaultLoc EXCEPT !.op = "pop_wait_for", !.num_tries = num_tries],
       "pop_wait_for_loop")

\* for (...; i<num_tries; ++i) { if (Policy::pop(elem)) return true; }
\* return false;
pop_wait_for_loop(t) ==
  /\ pc[t] = "pop_wait_for_loop"
  /\ IF loc[t].i < loc[t].num_tries
       THEN Goto(t, [loc[t] EXCEPT !.attempts = @ + 1], "pop_load_read")
       ELSE Return(t, FALSE, 0)
  /\ UNCHANGED <<policy, buffer_, read_index_, write_index_, out>>

(* ----------------------- push_range and pop_range --------------------- *)

\* int push_range(Iterator first, Iterator last): int count = 0;
\* range is the sequence [first, last)
call_push_range(t, range) ==
  Call(t, [DefaultLoc EXCEPT !.op = "push_range", !.range = range],
       "push_range_loop")

\* push_range pushing the range from its last element down
push_range_loop_from_last(t) ==
  /\ pc[t] = "push_range_loop"
  /\ IF loc[t].count = Len(loc[t].range)
       THEN Return(t, loc[t].count, 0)
       ELSE Goto(t, [loc[t] EXCEPT
                       !.elem = loc[t].range[Len(loc[t].range) - loc[t].count],
                       !.attempts = @ + 1],
                 PolicyPushEntry)
  /\ UNCHANGED <<policy, buffer_, read_index_, write_index_, out>>

\* while((first+count) != last) { if(! Policy::push(*(first+count))) break;
\* ++count; } return count;
push_range_loop(t) ==
  /\ pc[t] = "push_range_loop"
  /\ IF loc[t].count = Len(loc[t].range)
       THEN Return(t, loc[t].count, 0)
       ELSE Goto(t, [loc[t] EXCEPT !.elem = loc[t].range[loc[t].count + 1],
                                   !.attempts = @ + 1],
                 PolicyPushEntry)
  /\ UNCHANGED <<policy, buffer_, read_index_, write_index_, out>>

\* int pop_range(Iterator first, Iterator last): int count = 0;
\* range is the sequence [first, last) the caller wants filled
call_pop_range(t, range) ==
  Call(t, [DefaultLoc EXCEPT !.op = "pop_range", !.range = range],
       "pop_range_loop")

\* pop_range stopping one position before last
pop_range_loop_stops_early(t) ==
  /\ pc[t] = "pop_range_loop"
  /\ IF loc[t].count + 1 >= Len(loc[t].range)
       THEN Return(t, loc[t].count, 0)
       ELSE Goto(t, [loc[t] EXCEPT !.attempts = @ + 1], "pop_load_read")
  /\ UNCHANGED <<policy, buffer_, read_index_, write_index_, out>>

\* while((first+count) != last) { if(! Policy::pop(*(first+count))) break;
\* ++count; } return count;
pop_range_loop(t) ==
  /\ pc[t] = "pop_range_loop"
  /\ IF loc[t].count = Len(loc[t].range)
       THEN Return(t, loc[t].count, 0)
       ELSE Goto(t, [loc[t] EXCEPT !.attempts = @ + 1], "pop_load_read")
  /\ UNCHANGED <<policy, buffer_, read_index_, write_index_, out>>

(* ------------------ push_range_wait and pop_range_wait ---------------- *)

\* void push_range_wait(Iterator first, Iterator last); range is the
\* sequence [first, last) as the call gets it, count the number of ++first
call_push_range_wait(t, range) ==
  Call(t, [DefaultLoc EXCEPT !.op = "push_range_wait", !.range = range],
       "push_range_wait_loop")

\* push_range_wait pushing the range from its last element down
push_range_wait_loop_from_last(t) ==
  /\ pc[t] = "push_range_wait_loop"
  /\ IF loc[t].count = Len(loc[t].range)
       THEN Return(t, TRUE, 0)
       ELSE Goto(t, [loc[t] EXCEPT
                       !.elem = loc[t].range[Len(loc[t].range) - loc[t].count]],
                 PolicyPushEntry)
  /\ UNCHANGED <<policy, buffer_, read_index_, write_index_, out>>

\* while(first != last) { push_wait(*first); ++first; }
push_range_wait_loop(t) ==
  /\ pc[t] = "push_range_wait_loop"
  /\ IF loc[t].count = Len(loc[t].range)
       THEN Return(t, TRUE, 0)
       ELSE Goto(t, [loc[t] EXCEPT !.elem = loc[t].range[loc[t].count + 1]],
                 PolicyPushEntry)
  /\ UNCHANGED <<policy, buffer_, read_index_, write_index_, out>>

\* void pop_range_wait(Iterator first, Iterator last); range is the
\* sequence [first, last) the caller wants filled
call_pop_range_wait(t, range) ==
  Call(t, [DefaultLoc EXCEPT !.op = "pop_range_wait", !.range = range],
       "pop_range_wait_loop")

\* while(first != last) { pop_wait(*first); ++first; }
pop_range_wait_loop(t) ==
  /\ pc[t] = "pop_range_wait_loop"
  /\ IF loc[t].count = Len(loc[t].range)
       THEN Return(t, TRUE, 0)
       ELSE Goto(t, loc[t], "pop_load_read")
  /\ UNCHANGED <<policy, buffer_, read_index_, write_index_, out>>

(* ------------------------- queue::consume_with ------------------------ *)

\* bool consume_with(Fn && fn, Args &&... args):
\* auto elem = data_type();
call_consume_with(t) ==
  Call(t, [DefaultLoc EXCEPT !.op = "consume_with"], "consume_with_pop")

\* the argument of the call Policy::pop(&elem): the address of the local
\* elem, a prvalue of type data_type*
consume_with_argument == [type |-> "data_type*", category |-> "prvalue"]

\* the parameter of template<typename U> bool pop(U & elem): a reference to
\* non-const, which binds to lvalues only
PopBindsTo(arg) == arg.category = "lvalue"

\* if (Policy::pop(&elem)) { std::invoke(fn, std::move(elem), args...);
\* return true; } return false;
\* where the call of pop has no function it can bind to, the member function
\* has no instantiation: the call of consume_with is ill-formed and nothing
\* of it runs
consume_with_pop(t) ==
  /\ pc[t] = "consume_with_pop"
  /\ IF PopBindsTo(consume_with_argument)
       THEN Goto(t, loc[t], "pop_load_read")
       ELSE Return(t, "ill-formed", 0)
  /\ UNCHANGED <<policy, buffer_, read_index_, write_index_, out>>

(* ------------- push_wait_for and pop_wait_for with a timeout ---------- *)

\* bool push_wait_for(U && elem, std::chrono::duration<Rep, Period> timeout)
call_push_wait_for_timeout(t, elem) ==
  Call(t, [DefaultLoc EXCEPT !.op = "push_wait_for_timeout", !.elem = elem],
       "async_launch")

\* bool pop_wait_for(U & elem, std::chrono::duration<Rep, Period> timeout)
call_pop_wait_for_timeout(t) ==
  Call(t, [DefaultLoc EXCEPT !.op = "pop_wait_for_timeout", !.elem = out[t]],
       "async_launch")

\* the lambda: auto elem = data_type(); push_wait(std::forward<U>(elem)) or
\* pop_wait(elem); return elem;
TaskLoc(t) ==
  [DefaultLoc EXCEPT !.op = IF loc[t].op = "push_wait_for_timeout"
                              THEN "task_push_wait" ELSE "task_pop_wait",
                     !.elem = 0]

TaskEntry(t) ==
  IF loc[t].op = "push_wait_for_timeout" THEN PolicyPushEntry
                                         ELSE "pop_load_read"

\* auto fut = std::async([this] () { ... });
\* std::async without a launch policy: the implementation starts a thread
\* (async) or defers the lambda to the first get or wait (deferred)
async_launch(t) ==
  /\ pc[t] = "async_launch"
  /\ pc[Task] = "idle"
  /\ \E launch \in {"async", "deferred"} :
       /\ pc' = [pc EXCEPT ![t] = "future_wait_for",
                           ![Task] = IF launch = "async" THEN TaskEntry(t)
                                                         ELSE "task_deferred"]
       /\ loc' = [loc EXCEPT ![t].launch = launch, ![Task] = TaskLoc(t)]
  /\ UNCHANGED <<policy, buffer_, read_index_, write_index_, out, hist, snap>>

\* auto res = fut.wait_for(timeout);
\* if (res == std::future_status::timeout) { return false; }
\* a deferred lambda gives future_status::deferred at once; otherwise ready
\* when the lambda has returned, timeout at a moment at which it has not
future_wait_for(t) ==
  /\ pc[t] = "future_wait_for"
  /\ IF loc[t].launch = "async" /\ pc[Task] # "task_done"
       THEN Goto(t, loc[t], "future_dtor")
       ELSE Goto(t, loc[t], "future_get")
  /\ UNCHANGED <<policy, buffer_, read_index_, write_index_, out>>

\* the timeout call of thread t returns ret, its elem holding x, and val is
\* the element it hands back; the lambda is over
FutureReturn(t, ret, x, val) ==
  /\ pc' = [pc EXCEPT ![t] = "idle", ![Task] = "idle"]
  /\ loc' = [loc EXCEPT ![t] = DefaultLoc, ![Task] = DefaultLoc]
  /\ hist' = [hist EXCEPT ![t] =
                Append(@, [op |-> loc[t].op, arg |-> loc[t].elem,
                           ret |-> ret, val |-> val, pre |-> snap[t],
                           auto |-> [loc[t] EXCEPT !.elem = x]])]
  /\ snap' = [snap EXCEPT ![t] = NoSnapshot]

\* elem = fut.get(); return true;
\* get runs a deferred lambda, and waits until the lambda has returned
future_get(t) ==
  /\ pc[t] = "future_get"
  /\ \/ /\ pc[Task] = "task_deferred"
        /\ pc' = [pc EXCEPT ![Task] = TaskEntry(t)]
        /\ UNCHANGED <<out, loc, hist, snap>>
     \/ /\ pc[Task] = "task_done"
        /\ out' = IF loc[t].op = "pop_wait_for_timeout"
                    THEN [out EXCEPT ![t] = loc[Task].elem] ELSE out
        /\ FutureReturn(t, TRUE, loc[Task].elem, loc[Task].elem)
  /\ UNCHANGED <<policy, buffer_, read_index_, write_index_>>

\* return false, moving the result of the lambda into elem as it does
future_dtor_takes_result(t) ==
  /\ pc[t] = "future_dtor"
  /\ pc[Task] = "task_done"
  /\ out' = IF loc[t].op = "pop_wait_for_timeout"
              THEN [out EXCEPT ![t] = loc[Task].elem] ELSE out
  /\ FutureReturn(t, FALSE, loc[Task].elem, 0)
  /\ UNCHANGED <<policy, buffer_, read_index_, write_index_>>

\* return false: the destructor of fut runs, and the destructor of a future
\* that std::async gave a thread to waits until the lambda has returned
future_dtor(t) ==
  /\ pc[t] = "future_dtor"
  /\ pc[Task] = "task_done"
  /\ FutureReturn(t, FALSE, loc[t].elem, 0)
  /\ UNCHANGED <<policy, buffer_, read_index_, write_index_, out>>

(* --------------------------- specifications --------------------------- *)

\* queue() noexcept = default: buffer_ { }, read_index_ { 0 }, write_index_ { 0 }
Constructed ==
  /\ buffer_ = [i \in Indices |-> 0]
  /\ read_index_ = 0
  /\ write_index_ = 0
  /\ pc = [t \in Threads |-> "idle"]
  /\ loc = [t \in Threads |-> DefaultLoc]
  /\ out = [t \in Threads |-> 0]
  /\ hist = [t \in Threads |-> << >>]
  /\ snap = [t \in Threads |-> NoSnapshot]

\* queue(std::initializer_list<data_type> list): the members are initialised
\* as by queue(), and the body, push_range(std::begin(list), std::end(list)),
\* is about to run on the constructing thread
ConstructedFrom(list) ==
  /\ buffer_ = [i \in Indices |-> 0]
  /\ read_index_ = 0
  /\ write_index_ = 0
  /\ pc = [t \in Threads |-> IF t = "main" THEN "push_range_loop" ELSE "idle"]
  /\ loc = [t \in Threads |->
             IF t = "main"
               THEN [DefaultLoc EXCEPT !.op = "queue", !.range = list]
               ELSE DefaultLoc]
  /\ out = [t \in Threads |-> 0]
  /\ hist = [t \in Threads |-> << >>]
  /\ snap = [t \in Threads |-> NoSnapshot]

\* A single-threaded caller: thread main makes one push or pop after the
\* other on a queue of either policy.
Init ==
  /\ policy \in {"no_overwrite", "overwrite"}
  /\ Constructed

Next ==
  \/ \E v \in Values : CallsBegun < MaxCalls /\ call_push("main", v)
  \/ CallsBegun < MaxCalls /\ call_pop("main")
  \/ base_push("main")
  \/ overwrite_push("main")
  \/ base_pop("main")

Spec == Init /\ [][Next]_vars

\* A single-threaded caller using every non-waiting call of the queue.
NextAll ==
  \/ \E v \in Values : CallsBegun < MaxCallsAll /\ call_push("main", v)
  \/ CallsBegun < MaxCallsAll /\ call_pop("main")
  \/ CallsBegun < MaxCallsAll /\ call_pop_opt("main")
  \/ CallsBegun < MaxCallsAll /\ call_clear("main")
  \/ base_push("main")
  \/ overwrite_push("main")
  \/ base_pop("main")
  \/ clear("main")

SpecAll == Init /\ [][NextAll]_vars

\* One producer thread and one consumer thread on a no_overwrite queue.
InitSPSC ==
  /\ policy = "no_overwrite"
  /\ Constructed

NextSPSC ==
  \/ \E v \in Values : CallsBegun < MaxCallsSPSC /\ call_push("producer", v)
  \/ \E v \in Values : CallsBegun < MaxCallsSPSC /\ call_push_wait("producer", v)
  \/ CallsBegun < MaxCallsSPSC /\ call_pop("consumer")
  \/ CallsBegun < MaxCallsSPSC /\ call_pop_wait("consumer")
  \/ base_push("producer")
  \/ base_pop("consumer")

SpecSPSC == InitSPSC /\ [][NextSPSC]_vars

\* A single-threaded caller that pushes, pops and clears, and whose call in
\* flight is always scheduled again.  compare_exchange_weak may fail although
\* the values compare equal, but not every time: of the retries of a loop
\* whose comparison holds again and again, one succeeds (strong fairness of
\* the successful exchange).
NextClear ==
  \/ \E v \in Values : CallsBegun < MaxCallsClear /\ call_push("main", v)
  \/ CallsBegun < MaxCallsClear /\ call_pop("main")
  \/ CallsBegun < MaxCallsClear /\ call_clear("main")
  \/ base_push("main")
  \/ overwrite_push("main")
  \/ base_pop("main")
  \/ clear("main")

FairClear ==
  /\ WF_vars(base_push("main"))
  /\ WF_vars(base_pop("main"))
  /\ WF_vars(overwrite_push("main"))
  /\ SF_vars(overwrite_push_cas("main") /\ pc'["main"] = "ow_store_slot")
  /\ WF_vars(clear("main"))
  /\ SF_vars(clear_cas("main") /\ pc'["main"] = "idle")

SpecClear == Init /\ [][NextClear]_vars /\ FairClear

NumTries == -1 .. MaxTries

\* A single-threaded caller of the num_tries calls.
NextTries ==
  \/ \E v \in Values, n \in NumTries :
       CallsBegun < MaxCallsTries /\ call_push_wait_for("main", v, n)
  \/ \E n \in NumTries :
       CallsBegun < MaxCallsTries /\ call_pop_wait_for("main", n)
  \/ push_wait_for_loop("main")
  \/ pop_wait_for_loop("main")
  \/ base_push("main")
  \/ overwrite_push("main")
  \/ base_pop("main")

SpecTries == Init /\ [][NextTries]_vars

NumTriesSPSC == 1 .. MaxTriesSPSC

\* One producer thread and one consumer thread using the num_tries calls, on
\* a queue of either policy.
NextTriesSPSC ==
  \/ \E v \in Values, n \in NumTriesSPSC :
       CallsBegun < MaxCallsTriesSPSC /\ call_push_wait_for("producer", v, n)
  \/ \E n \in NumTriesSPSC :
       CallsBegun < MaxCallsTriesSPSC /\ call_pop_wait_for("consumer", n)
  \/ push_wait_for_loop("producer")
  \/ pop_wait_for_loop("consumer")
  \/ base_push("producer")
  \/ overwrite_push("producer")
  \/ base_pop("consumer")

SpecTriesSPSC == Init /\ [][NextTriesSPSC]_vars

\* A single-threaded caller of the timeout calls, with push and pop to bring
\* the queue into every state; the lambda of the call in flight runs on Task.
NextTimed ==
  \/ \E v \in Values : CallsBegun < MaxCallsTimed /\ call_push("main", v)
  \/ CallsBegun < MaxCallsTimed /\ call_pop("main")
  \/ \E v \in Values :
       CallsBegun < MaxCallsTimed /\ call_push_wait_for_timeout("main", v)
  \/ CallsBegun < MaxCallsTimed /\ call_pop_wait_for_timeout("main")
  \/ async_launch("main")
  \/ future_wait_for("main")
  \/ future_get("main")
  \/ future_dtor("main")
  \/ base_push("main")
  \/ overwrite_push("main")
  \/ base_pop("main")
  \/ base_push(Task)
  \/ overwrite_push(Task)
  \/ base_pop(Task)

SpecTimed == Init /\ [][NextTimed]_vars

\* the same under fair scheduling: every thread with a step to take takes
\* one, and a compare_exchange_weak that is tried again and again succeeds
FairTimed ==
  /\ \A t \in {"main", Task} :
       /\ WF_vars(base_push(t))
       /\ WF_vars(base_pop(t))
       /\ WF_vars(overwrite_push(t))
       /\ SF_vars(overwrite_push_cas(t) /\ pc'[t] = "ow_store_slot")
  /\ WF_vars(async_launch("main"))
  /\ WF_vars(future_wait_for("main"))
  /\ WF_vars(future_get("main"))
  /\ WF_vars(future_dtor("main"))

SpecTimedFair == Init /\ [][NextTimed]_vars /\ FairTimed

\* first, first + 1, ... : a range of len elements, as iota fills it
Range(first, len) == [k \in 1 .. len |-> first + k - 1]

Queries == {"empty", "full", "size"}

\* One producer thread using push and one consumer thread using pop and the
\* queries, on a queue of either policy, under fair scheduling: a thread with
\* a call in flight keeps taking steps, and a compare_exchange_weak that is
\* tried again and again with the value it expects succeeds.
NextPlain ==
  \/ \E v \in Values : CallsBegun < MaxCallsPlain /\ call_push("producer", v)
  \/ CallsBegun < MaxCallsPlain /\ call_pop("consumer")
  \/ \E op \in Queries :
       CallsBegun < MaxCallsPlain /\ call_query("consumer", op)
  \/ base_push("producer")
  \/ overwrite_push("producer")
  \/ base_pop("consumer")
  \/ query("consumer")

FairPlain ==
  /\ WF_vars(base_push("producer"))
  /\ WF_vars(overwrite_push("producer"))
  /\ SF_vars(overwrite_push_cas("producer") /\ pc'["producer"] = "ow_store_slot")
  /\ WF_vars(base_pop("consumer"))
  /\ WF_vars(query("consumer"))

SpecPlain == Init /\ [][NextPlain]_vars /\ FairPlain

\* the calls thread t has begun
Begun(t) == Len(hist[t]) + (IF pc[t] = "idle" THEN 0 ELSE 1)

\* the number of elements of the range of the n-th call thread t has begun:
\* of the call in flight, or of one that has returned
RangeLen(t, n) ==
  IF n <= Len(hist[t]) THEN Len(hist[t][n].auto.range) ELSE Len(loc[t].range)

\* thread t may begin a call over len elements: the opposite thread u has
\* returned from as many calls as t, and the two calls of a round are over
\* ranges of the same number of elements
MayBeginRound(t, u, len) ==
  /\ CallsBegun < MaxCallsRangeWait
  /\ Len(hist[t]) <= Len(hist[u])
  /\ Begun(u) > Begun(t) => RangeLen(u, Begun(t) + 1) = len

\* One producer running push_range_wait and one consumer running
\* pop_range_wait over ranges of the same number K of elements, round after
\* round, on a no_overwrite queue.
NextRangeWait ==
  \/ \E v \in Values, len \in 0 .. MaxRangeWait :
       /\ MayBeginRound("producer", "consumer", len)
       /\ call_push_range_wait("producer", Range(v, len))
  \/ \E len \in 0 .. MaxRangeWait :
       /\ MayBeginRound("consumer", "producer", len)
       /\ call_pop_range_wait("consumer", [k \in 1 .. len |-> 0])
  \/ push_range_wait_loop("producer")
  \/ pop_range_wait_loop("consumer")
  \/ base_push("producer")
  \/ base_pop("consumer")

\* weak fairness of both threads: a thread whose call is in flight keeps
\* taking steps
FairRangeWait ==
  /\ WF_vars(push_range_wait_loop("producer") \/ base_push("producer"))
  /\ WF_vars(pop_range_wait_loop("consumer") \/ base_pop("consumer"))

SpecRangeWait == InitSPSC /\ [][NextRangeWait]_vars /\ FairRangeWait

\* A single-threaded caller of consume_with, with push to fill the queue.
NextConsume ==
  \/ \E v \in Values : CallsBegun < MaxCallsConsume /\ call_push("main", v)
  \/ CallsBegun < MaxCallsConsume /\ call_pop("main")
  \/ CallsBegun < MaxCallsConsume /\ call_consume_with("main")
  \/ consume_with_pop("main")
  \/ base_push("main")
  \/ overwrite_push("main")
  \/ base_pop("main")

SpecConsume == Init /\ [][NextConsume]_vars

RangeInputs == {Range(v, len) : v \in Values, len \in 0 .. MaxRange}

\* value-initialised arrays for pop_range to fill
RangeOutputs == {[k \in 1 .. len |-> 0] : len \in 0 .. MaxRange}

\* A no_overwrite queue constructed from an initializer list, then a
\* single-threaded caller of push_range and pop.
InitPushRange ==
  /\ policy = "no_overwrite"
  /\ \E list \in RangeInputs : ConstructedFrom(list)

NextPushRange ==
  \/ \E range \in RangeInputs :
       CallsBegun < MaxCallsRange /\ call_push_range("main", range)
  \/ CallsBegun < MaxCallsRange /\ call_pop("main")
  \/ push_range_loop("main")
  \/ base_push("main")
  \/ base_pop("main")

SpecPushRange == InitPushRange /\ [][NextPushRange]_vars

\* A queue of either policy constructed from an initializer list, then a
\* single-threaded caller of pop_range and push.
InitPopRange ==
  /\ policy \in {"no_overwrite", "overwrite"}
  /\ \E list \in RangeInputs : ConstructedFrom(list)

NextPopRange ==
  \/ \E range \in RangeOutputs :
       CallsBegun < MaxCallsPopRange /\ call_pop_range("main", range)
  \/ \E v \in Values : CallsBegun < MaxCallsPopRange /\ call_push("main", v)
  \/ push_range_loop("main")
  \/ pop_range_loop("main")
  \/ base_push("main")
  \/ overwrite_push("main")
  \/ base_pop("main")

SpecPopRange == InitPopRange /\ [][NextPopRange]_vars

\* the ranges of the calls of NextFamily: 1, 2, ... MaxRangeFamily, and a
\* value-initialised array of the same length
FamilyInputs == {Range(1, MaxRangeFamily)}

FamilyOutputs == {[k \in 1 .. MaxRangeFamily |-> 0]}

\* One producer thread using every call of the push family and one consumer
\* thread using every call of the pop family, on a queue of either policy.
NextFamily ==
  \/ \E v \in Values : CallsBegun < MaxCallsFamily /\ call_push("producer", v)
  \/ CallsBegun < MaxCallsFamily /\ call_push_wait("producer", 1)
  \/ CallsBegun < MaxCallsFamily
       /\ call_push_wait_for("producer", 1, 1)
  \/ \E range \in FamilyInputs :
       CallsBegun < MaxCallsFamily /\ call_push_range("producer", range)
  \/ \E range \in FamilyInputs :
       CallsBegun < MaxCallsFamily /\ call_push_range_wait("producer", range)
  \/ CallsBegun < MaxCallsFamily /\ call_pop("consumer")
  \/ CallsBegun < MaxCallsFamily /\ call_pop_wait("consumer")
  \/ CallsBegun < MaxCallsFamily /\ call_pop_wait_for("consumer", 1)
  \/ \E range \in FamilyOutputs :
       CallsBegun < MaxCallsFamily /\ call_pop_range("consumer", range)
  \/ \E range \in FamilyOutputs :
       CallsBegun < MaxCallsFamily /\ call_pop_range_wait("consumer", range)
  \/ push_wait_for_loop("producer")
  \/ push_range_loop("producer")
  \/ push_range_wait_loop("producer")
  \/ pop_wait_for_loop("consumer")
  \/ pop_range_loop("consumer")
  \/ pop_range_wait_loop("consumer")
  \/ base_push("producer")
  \/ overwrite_push("producer")
  \/ base_pop("consumer")

SpecFamily == Init /\ [][NextFamily]_vars

\* One producer thread using push and one consumer thread using pop and
\* clear, on a no_overwrite queue.  The consumer is scheduled fairly and its
\* compare_exchange_weak does not fail spuriously for ever; nothing is
\* assumed of the producer.
NextClearSPSC ==
  \/ \E v \in Values :
       CallsBegun < MaxCallsClearSPSC /\ call_push("producer", v)
  \/ CallsBegun < MaxCallsClearSPSC /\ call_pop("consumer")
  \/ CallsBegun < MaxCallsClearSPSC /\ call_clear("consumer")
  \/ base_push("producer")
  \/ base_pop("consumer")
  \/ clear("consumer")

FairClearSPSC ==
  /\ WF_vars(base_pop("consumer"))
  /\ WF_vars(clear("consumer"))
  /\ SF_vars(clear_cas("consumer") /\ pc'["consumer"] = "idle")

SpecClearSPSC == InitSPSC /\ [][NextClearSPSC]_vars /\ FairClearSPSC

\* One producer thread using push and clear and one consumer thread using
\* pop, on a no_overwrite queue.
NextClearProducer ==
  \/ \E v \in Values :
       CallsBegun < MaxCallsClearProducer /\ call_push("producer", v)
  \/ CallsBegun < MaxCallsClearProducer /\ call_clear("producer")
  \/ CallsBegun < MaxCallsClearProducer /\ call_pop("consumer")
  \/ base_push("producer")
  \/ clear("producer")
  \/ base_pop("consumer")

SpecClearProducer == InitSPSC /\ [][NextClearProducer]_vars

\* One producer thread using push and one consumer thread using pop, either
\* of them calling clear() and size(), on a queue of either policy.
NextCursors ==
  \/ \E v \in Values : CallsBegun < MaxCallsCursors /\ call_push("producer", v)
  \/ CallsBegun < MaxCallsCursors /\ call_pop("consumer")
  \/ \E t \in {"producer", "consumer"} :
       CallsBegun < MaxCallsCursors /\ call_clear(t)
  \/ \E t \in {"producer", "consumer"} :
       CallsBegun < MaxCallsCursors /\ call_query(t, "size")
  \/ base_push("producer")
  \/ overwrite_push("producer")
  \/ base_pop("consumer")
  \/ \E t \in {"producer", "consumer"} : clear(t)
  \/ \E t \in {"producer", "consumer"} : query(t)

SpecCursors == Init /\ [][NextCursors]_vars

(* ------------------------- reading the history ------------------------ *)

IsPush(e) ==
  e.op \in {"push", "push_wait", "push_wait_for", "push_wait_for_timeout"}

IsPop(e) ==
  e.op \in {"pop", "pop_opt", "pop_wait", "pop_wait_for",
            "pop_wait_for_timeout"}

\* the values of thread t's successful pushes, in call order
Pushed(t) ==
  LET s == SelectSeq(hist[t], LAMBDA e : IsPush(e) /\ e.ret)
  IN  [i \in 1 .. Len(s) |-> s[i].arg]

\* the values thread t's successful pops returned, in call order
Popped(t) ==
  LET s == SelectSeq(hist[t], LAMBDA e : IsPop(e) /\ e.ret)
  IN  [i \in 1 .. Len(s) |-> s[i].val]

IsPrefix(s, r) ==
  /\ Len(s) <= Len(r)
  /\ \A i \in 1 .. Len(s) : s[i] = r[i]

Min(a, b) == IF a <= b THEN a ELSE b

\* the elements the queue holds, oldest first: the slots from read_index_ up
\* to write_index_
ContentsOf(q) ==
  [k \in 1 .. q.size |-> q.buffer_[(q.read_index_ + k - 1) % buffer_size_]]

Contents ==
  ContentsOf([buffer_ |-> buffer_, read_index_ |-> read_index_, size |-> size])

\* the single-threaded caller is between two calls
Idle == pc["main"] = "idle"

H == hist["main"]

Last == H[Len(H)]

\* the position of the last clear() in h, 0 when there is none
LastClear(h) ==
  LET S == {i \in 1 .. Len(h) : h[i].op = "clear"}
  IN  IF S = {} THEN 0 ELSE CHOOSE i \in S : \A j \in S : j <= i

\* the position at which the run of pops that ends h begins (Len(h) + 1 when
\* h does not end with a pop)
PopRunStart(h) ==
  LET S == {i \in 1 .. Len(h) + 1 : \A j \in i .. Len(h) : IsPop(h[j])}
  IN  CHOOSE i \in S : \A j \in S : i <= j

(* ------------------------------- claims ------------------------------- *)

\* C1: with one producer and one consumer on a no_overwrite queue, under
\* every interleaving of the steps of push/push_wait and pop/pop_wait, the
\* values returned by successful pops are a prefix of the values of the
\* successful pushes (nothing lost, duplicated, reordered or stale).
C1_PopsArePrefixOfPushes ==
  IsPrefix(Popped("consumer"), Pushed("producer"))

\* a pop has already returned an element, the queue has been filled once, and
\* the consumer is between publishing read_index_ and reading its slot while
\* the producer is about to publish a push
C1_Witness ==
  /\ Len(Popped("consumer")) >= 1
  /\ Len(Pushed("producer")) >= queue_size
  /\ pc["consumer"] = "pop_move_slot"
  /\ pc["producer"] = "push_publish"

\* C2: single-threaded, no_overwrite: after any sequence of push and pop
\* calls the successful pops returned the values of the successful pushes in
\* the same order, and what was pushed and not yet popped is what the queue
\* holds.
C2_Fifo ==
  (policy = "no_overwrite") =>
    /\ IsPrefix(Popped("main"), Pushed("main"))
    /\ Idle => Len(Pushed("main")) - Len(Popped("main")) = size

\* both cursors have wrapped around: queue_size + 1 elements went through
C2_Witness ==
  /\ policy = "no_overwrite"
  /\ Idle
  /\ Len(Popped("main")) = queue_size + 1
  /\ read_index_ = 0
  /\ write_index_ = 0

\* C3: no_overwrite: a push on a queue that holds queue_size elements returns
\* false and leaves read_index_, write_index_ and every slot as they were, so
\* size() is still queue_size.
C3_PushOnFullFails ==
  (policy = "no_overwrite" /\ Idle /\ Len(H) > 0 /\ Last.op = "push"
     /\ Last.pre.size = queue_size) =>
    /\ Last.ret = FALSE
    /\ buffer_ = Last.pre.buffer_
    /\ read_index_ = Last.pre.read_index_
    /\ write_index_ = Last.pre.write_index_
    /\ size = queue_size

C3_Witness ==
  /\ policy = "no_overwrite" /\ Idle /\ Len(H) > 0 /\ Last.op = "push"
  /\ Last.pre.size = queue_size
  /\ Last.ret = FALSE
  /\ read_index_ # 0

\* C4: a pop on an empty queue fails and changes nothing: pop(out) returns
\* false and leaves out, the cursors and the buffer as they were, pop()
\* returns an empty optional; a pop on a non-empty queue succeeds.
C4_PopOnEmptyFails ==
  (Idle /\ Len(H) > 0 /\ Last.op \in {"pop", "pop_opt"}) =>
    IF Last.pre.empty
      THEN /\ Last.ret = FALSE
           /\ buffer_ = Last.pre.buffer_
           /\ read_index_ = Last.pre.read_index_
           /\ write_index_ = Last.pre.write_index_
           /\ out["main"] = Last.pre.out
      ELSE Last.ret = TRUE

\* pop() has just failed on the queue on which pop(out) failed before it, out
\* still holding the element of an earlier pop
C4_Witness ==
  /\ Idle /\ Len(H) > 2
  /\ Last.op = "pop_opt" /\ Last.ret = FALSE
  /\ H[Len(H) - 1].op = "pop" /\ H[Len(H) - 1].ret = FALSE
  /\ out["main"] # 0

\* C5: overwrite, single-threaded, from the empty queue: queue_size + 1 pushes
\* v1 .. vN+1 all return true and the next pops return v2, v3, ... in order.
C5_OverwriteEvictsOldest ==
  (/\ policy = "overwrite" /\ Idle
   /\ Len(H) > queue_size
   /\ \A i \in 1 .. Len(H) : IsPush(H[i]) <=> i <= queue_size + 1) =>
    /\ \A i \in 1 .. queue_size + 1 : H[i].ret = TRUE
    /\ Len(H) <= 2 * queue_size + 1
         => \A i \in queue_size + 2 .. Len(H) :
              /\ H[i].ret = TRUE
              /\ H[i].val = H[i - queue_size].arg

\* C6: overwrite: a push onto a queue holding fewer than queue_size elements
\* leaves read_index_ as it was and increases size() by exactly one.
C6_OverwriteKeepsWhenNotFull ==
  (policy = "overwrite" /\ Idle /\ Len(H) > 0 /\ Last.op = "push"
     /\ Last.pre.size < queue_size) =>
    /\ Last.ret = TRUE
    /\ read_index_ = Last.pre.read_index_
    /\ size = Last.pre.size + 1

\* C7: no_overwrite: after i push attempts and no pop on a new queue, size()
\* is min(i, queue_size); and for a single-threaded caller size() does not
\* decrease over a push nor increase over a pop.
C7_SizeAfterPushes ==
  Idle =>
    /\ (policy = "no_overwrite" /\ \A i \in 1 .. Len(H) : IsPush(H[i]))
         => size = Min(Len(H), queue_size)
    /\ (Len(H) > 0 /\ IsPush(Last)) => size >= Last.pre.size
    /\ (Len(H) > 0 /\ IsPop(Last)) => size <= Last.pre.size

C7_Witness ==
  /\ policy = "no_overwrite" /\ Idle
  /\ Len(H) = 2 * queue_size
  /\ \A i \in 1 .. Len(H) : IsPush(H[i])
  /\ size = queue_size

C9_FullAfterNPushes ==
  LET c == LastClear(H)
      k == Len(H) - c
  IN  (/\ policy = "no_overwrite" /\ Idle
       /\ \A i \in c + 1 .. Len(H) : H[i].op = "push") =>
        /\ \A i \in 1 .. k : H[c + i].ret <=> i <= queue_size
        /\ full <=> k >= queue_size

\* filled up, wrapping around, after a clear() of a non-empty queue that left
\* the cursors off slot 0
C9_Witness ==
  LET c == LastClear(H)
  IN  /\ policy = "no_overwrite" /\ Idle
      /\ c > 0
      /\ H[c].pre.size > 0
      /\ read_index_ > 0
      /\ write_index_ < read_index_
      /\ Len(H) - c = queue_size
      /\ \A i \in c + 1 .. Len(H) : H[i].op = "push"
      /\ full

\* C10: either policy, single-threaded: a new queue is empty, and from a
\* state with size() = s the next s pops succeed, after which empty() holds
\* and a further pop fails.
C10_EmptyAfterSizePops ==
  Idle =>
    /\ Len(H) = 0 => empty
    /\ LET b == PopRunStart(H)
           j == Len(H) + 1 - b
       IN  j > 0 =>
             LET s == H[b].pre.size
             IN  /\ \A i \in 1 .. j : H[b + i - 1].ret <=> i <= s
                 /\ j >= s => empty
                 /\ j < s => ~empty

\* s = queue_size pops emptied a full queue and one more pop failed
C10_Witness ==
  LET b == PopRunStart(H)
  IN  /\ Idle
      /\ Len(H) + 1 - b = queue_size + 1
      /\ H[b].pre.size = queue_size
      /\ Last.ret = FALSE
      /\ empty

\* C11: single-threaded, either policy: clear() called in any state (empty,
\* partly filled, full, cursors wrapped) returns, and when it has returned
\* empty() is true and size() is 0; a pop that follows it at once fails.
C11_ClearEmpties ==
  /\ [](Idle /\ Len(H) > 0 /\ Last.op = "clear" => empty /\ size = 0)
  /\ [](Idle /\ Len(H) > 1 /\ IsPop(Last) /\ H[Len(H) - 1].op = "clear"
          => Last.ret = FALSE)
  /\ (pc["main"] = "clear_load_read") ~> (Idle /\ Len(H) > 0 /\ Last.op = "clear")

\* clear() found the queue full with the cursors wrapped, and the pop after
\* it has failed
C11_Witness ==
  /\ Idle /\ Len(H) > 1
  /\ IsPop(Last) /\ Last.ret = FALSE
  /\ H[Len(H) - 1].op = "clear"
  /\ H[Len(H) - 1].pre.full
  /\ H[Len(H) - 1].pre.write_index_ < H[Len(H) - 1].pre.read_index_

\* C12: either policy, any queue state: push_wait_for(x, n) and
\* pop_wait_for(out, n) with n <= 0 return false without one call of
\* Policy::push or Policy::pop, and leave the cursors, the buffer and out as
\* they were.
C12_NoTriesFails ==
  /\ \A k \in 1 .. Len(H) :
       (H[k].op \in {"push_wait_for", "pop_wait_for"}
          /\ H[k].auto.num_tries <= 0) =>
         /\ H[k].ret = FALSE
         /\ H[k].auto.attempts = 0
  /\ (Idle /\ Len(H) > 0 /\ Last.op \in {"push_wait_for", "pop_wait_for"}
        /\ Last.auto.num_tries <= 0) =>
       /\ buffer_ = Last.pre.buffer_
       /\ read_index_ = Last.pre.read_index_
       /\ write_index_ = Last.pre.write_index_
       /\ out["main"] = Last.pre.out

\* with one element in the queue, where a push and a pop would both succeed,
\* push_wait_for(x, 0) and then pop_wait_for(out, -1) have returned
C12_Witness ==
  /\ Idle /\ Len(H) = 3
  /\ H[2].op = "push_wait_for" /\ H[2].auto.num_tries = 0
  /\ H[2].pre.size = 1 /\ ~H[2].pre.full
  /\ Last.op = "pop_wait_for" /\ Last.auto.num_tries = -1
  /\ Last.pre.size = 1
  /\ Last.ret = FALSE

\* C13: one producer using push_wait_for(x, n) and one consumer using
\* pop_wait_for(out, n), n >= 1, under every interleaving: a call makes at
\* most n attempts, n of them when it returns false; the calls that returned
\* true moved one element each and the others none, so that the values
\* popped are a prefix of the values pushed and, between calls, the values
\* pushed are the values popped followed by what the queue holds.
C13_TriesTransferOne ==
  /\ \A t \in {"producer", "consumer"} : \A k \in 1 .. Len(hist[t]) :
       LET e == hist[t][k]
       IN  /\ e.auto.attempts <= e.auto.num_tries
           /\ e.ret = TRUE => e.auto.attempts >= 1
           /\ e.ret = FALSE => e.auto.attempts = e.auto.num_tries
  /\ IsPrefix(Popped("consumer"), Pushed("producer"))
  /\ (pc["producer"] = "idle" /\ pc["consumer"] = "idle")
       => Pushed("producer") = Popped("consumer") \o Contents

\* C14: a push_wait_for(x, timeout) that returns true has put one element
\* of value x at the tail of the queue (behind all it held under
\* no_overwrite), and the caller's x holds after the call what it held before.
C14_TimedPushEnqueuesX ==
  (Idle /\ Len(H) > 0 /\ Last.op = "push_wait_for_timeout" /\ Last.ret) =>
    /\ size > 0
    /\ Contents[size] = Last.arg
    /\ policy = "no_overwrite"
         => Contents = ContentsOf(Last.pre) \o <<Last.arg>>
    /\ Last.auto.elem = Last.arg

\* C15: a timeout call that returns false has left the queue as it found
\* it: nothing enqueued, nothing removed, read_index unadvanced, and no
\* lambda left running that could still do so.
C15_TimeoutHasNoEffect ==
  (Idle /\ Len(H) > 0 /\ ~Last.ret
     /\ Last.op \in {"push_wait_for_timeout", "pop_wait_for_timeout"}) =>
    /\ buffer_ = Last.pre.buffer_
    /\ read_index_ = Last.pre.read_index_
    /\ write_index_ = Last.pre.write_index_
    /\ pc[Task] = "idle"

\* C16: under fair scheduling every timeout call returns, whatever the state
\* of the queue: it does not wait for the push or pop of its lambda to
\* succeed.
C16_TimedCallReturns ==
  (pc["main"] = "async_launch") ~> Idle

\* C17: pop_wait_for(out, timeout): while the call is in flight and when it
\* has returned false out holds what it held before the call; when it has
\* returned true out holds the element popped, the oldest of the queue; and
\* no lambda is left running when the call has returned.
C17_TimedPopWritesOutOnSuccess ==
  /\ (pc["main"] \in {"async_launch", "future_wait_for", "future_get",
                       "future_dtor"}
        /\ loc["main"].op = "pop_wait_for_timeout")
       => out["main"] = snap["main"].out
  /\ Idle => pc[Task] = "idle"
  /\ (Idle /\ Len(H) > 0 /\ Last.op = "pop_wait_for_timeout") =>
       IF Last.ret
         THEN /\ out["main"] = Last.val
              /\ Last.pre.size > 0
              /\ Last.val = ContentsOf(Last.pre)[1]
         ELSE out["main"] = Last.pre.out

\* the timeout passed before the lambda had popped the element the queue
\* held, and the call returned false when the lambda had popped it: the
\* element has left the queue and is not in out
C17_Witness ==
  /\ Idle /\ Len(H) > 0
  /\ Last.op = "pop_wait_for_timeout" /\ ~Last.ret
  /\ Last.pre.size > 0
  /\ ContentsOf(Last.pre)[1] # Last.pre.out
  /\ size = Last.pre.size - 1
  /\ out["main"] = Last.pre.out

\* C18: no_overwrite, single-threaded: push_range over a range of L elements
\* on a queue with f free places returns min(L, f), having pushed the first
\* min(L, f) elements in range order behind those the queue held and having
\* stopped at the first push that failed.
C18_PushRange ==
  (policy = "no_overwrite" /\ Idle /\ Len(H) > 0 /\ Last.op = "push_range") =>
    LET range == Last.auto.range
        f == queue_size - Last.pre.size
        m == Min(Len(range), f)
    IN  /\ Last.ret = m
        /\ Contents = ContentsOf(Last.pre) \o SubSeq(range, 1, m)
        /\ Last.auto.attempts = Min(Len(range), m + 1)
        /\ read_index_ = Last.pre.read_index_

\* a range longer than the free places, pushed onto a queue that held an
\* element and whose write cursor then wrapped around
C18_Witness ==
  /\ policy = "no_overwrite" /\ Idle /\ Len(H) > 0 /\ Last.op = "push_range"
  /\ Last.pre.size = 1
  /\ Last.pre.read_index_ > 0
  /\ Len(Last.auto.range) > queue_size
  /\ Last.ret = queue_size - 1
  /\ write_index_ < read_index_
  /\ full

\* C19: a no_overwrite queue constructed from an initializer list of L
\* elements holds the first min(L, queue_size) of them, in order: size() is
\* min(L, queue_size), the pops that follow return them in list order, and a
\* pop after them fails.
C19_InitializerList ==
  (policy = "no_overwrite" /\ Idle /\ Len(H) > 0 /\ H[1].op = "queue") =>
    LET list == H[1].auto.range
        m == Min(Len(list), queue_size)
    IN  /\ Len(H) = 1 => /\ size = m
                         /\ Contents = SubSeq(list, 1, m)
        /\ (\A k \in 2 .. Len(H) : H[k].op = "pop") =>
             \A k \in 2 .. Len(H) :
               /\ H[k].ret <=> k - 1 <= m
               /\ H[k].ret => H[k].val = list[k - 1]

\* a list of queue_size + 1 elements: queue_size pops returned its first
\* elements and emptied the queue
C19_Witness ==
  /\ policy = "no_overwrite" /\ Idle
  /\ Len(H) = queue_size + 1
  /\ H[1].op = "queue"
  /\ Len(H[1].auto.range) = queue_size + 1
  /\ \A k \in 2 .. Len(H) : H[k].op = "pop" /\ H[k].ret
  /\ empty

\* C20: single-threaded: pop_range over a range of L positions on a queue
\* holding s elements returns min(L, s), having popped the min(L, s) oldest
\* elements into the first positions in order and stopped at the first pop
\* that failed; the other positions and out are as they were, and the queue
\* holds the remaining elements in order.
C20_PopRange ==
  (Idle /\ Len(H) > 0 /\ Last.op = "pop_range") =>
    LET range == Last.auto.range
        held == ContentsOf(Last.pre)
        s == Last.pre.size
        m == Min(Len(range), s)
    IN  /\ Last.ret = m
        /\ \A k \in 1 .. m : range[k] = held[k]
        /\ \A k \in m + 1 .. Len(range) : range[k] = 0
        /\ Contents = SubSeq(held, m + 1, s)
        /\ Last.auto.attempts = Min(Len(range), m + 1)
        /\ out["main"] = Last.pre.out
        /\ write_index_ = Last.pre.write_index_

\* a range of queue_size + 1 positions on a full queue whose cursors have
\* wrapped around
C20_Witness ==
  /\ policy = "no_overwrite" /\ Idle /\ Len(H) > 0 /\ Last.op = "pop_range"
  /\ Len(Last.auto.range) = queue_size + 1
  /\ Last.pre.size = queue_size
  /\ Last.pre.write_index_ < Last.pre.read_index_
  /\ Last.ret = queue_size
  /\ Last.auto.range[queue_size + 1] = 0
  /\ empty

\* C21: consume_with(fn, args...) on an empty queue returns false and leaves
\* the queue as it was; on a non-empty queue it returns true, having removed
\* the oldest element and no other and handed that element to fn.  (The
\* outcome of a consume_with call is recorded as "true", "false" or
\* "ill-formed".)
C21_ConsumeWith ==
  (Idle /\ Len(H) > 0 /\ Last.op = "consume_with") =>
    IF Last.pre.empty
      THEN /\ Last.ret = "false"
           /\ read_index_ = Last.pre.read_index_
           /\ write_index_ = Last.pre.write_index_
           /\ buffer_ = Last.pre.buffer_
      ELSE /\ Last.ret = "true"
           /\ Last.val = ContentsOf(Last.pre)[1]
           /\ Contents = Tail(ContentsOf(Last.pre))

\* C22: no_overwrite, one producer in push_range_wait over K elements and
\* one consumer in pop_range_wait over K positions (K may exceed
\* queue_size), both threads weakly fair: both calls return, and when they
\* have the positions of the consumer hold the elements of the producer in
\* range order.
C22_RangeWaitTransfers ==
  /\ (pc["producer"] # "idle" /\ pc["consumer"] # "idle")
       ~> (pc["producer"] = "idle" /\ pc["consumer"] = "idle")
  /\ [](\A n \in 1 .. Min(Len(hist["producer"]), Len(hist["consumer"])) :
          hist["consumer"][n].auto.range = hist["producer"][n].auto.range)

\* a second round over more elements than the queue has places has returned,
\* begun with the cursors off slot 0
C22_Witness ==
  /\ pc["producer"] = "idle" /\ pc["consumer"] = "idle"
  /\ Len(hist["producer"]) = 2 /\ Len(hist["consumer"]) = 2
  /\ Len(hist["producer"][1].auto.range) % buffer_size_ # 0
  /\ Len(hist["producer"][2].auto.range) > queue_size
  /\ hist["consumer"][2].auto.range = hist["producer"][2].auto.range

\* C23: push, pop, empty, full and size never block: under either policy a
\* call in flight of a thread that keeps being scheduled returns, whatever
\* the opposite thread does meanwhile, also when the compare-and-swap loop
\* of the overwrite push meets a consumer that pops.
C23_PlainCallsReturn ==
  /\ (pc["producer"] # "idle") ~> (pc["producer"] = "idle")
  /\ (pc["consumer"] # "idle") ~> (pc["consumer"] = "idle")

\* the overwrite push is in its compare-and-swap loop with an expected value
\* that a pop of the consumer has just made stale
C23_Witness ==
  /\ policy = "overwrite"
  /\ pc["producer"] = "ow_cas"
  /\ loc["producer"].old_read_index # read_index_
  /\ pc["consumer"] = "pop_move_slot"

\* C24: on a no_overwrite queue each cursor has one writer: no step of a call
\* of the push family (push, push_wait, push_wait_for, push_range,
\* push_range_wait) changes read_index_, and no step of a call of the pop
\* family changes write_index_ or a slot of buffer_.
C24_SingleWriter ==
  [][policy = "no_overwrite" =>
       /\ pc'["producer"] # pc["producer"] => read_index_' = read_index_
       /\ pc'["consumer"] # pc["consumer"] =>
            /\ write_index_' = write_index_
            /\ buffer_' = buffer_]_vars

\* both cursors have moved, the producer is about to publish a slot of a
\* push_range_wait and the consumer is about to read the slot it popped
C24_Witness ==
  /\ policy = "no_overwrite"
  /\ loc["producer"].op = "push_range_wait"
  /\ pc["producer"] = "push_publish"
  /\ pc["consumer"] = "pop_move_slot"
  /\ read_index_ # 0
  /\ write_index_ # 0

\* C25: in a successful pop the slot at the old read index is read into out
\* before read_index_ is given its successor: while a pop has selected a slot
\* (passed the empty test) and not yet read it, read_index_ still has the
\* value the pop loaded.
C25_SlotReadBeforePublish ==
  \A t \in Threads :
    pc[t] \in {"pop_publish", "pop_move_slot"} =>
      read_index_ = loc[t].old_read_index

\* C26: in a successful push on a no_overwrite queue the element is stored
\* into the slot at the old write index before write_index_ is given its
\* successor: between the two, write_index_ still has its old value and the
\* slot holds the element.  So for whatever value of write_index_ a consumer
\* finds, the slots from read_index_ up to write_index_ hold the elements
\* pushed last, in push order.
C26_ElementStoredBeforePublish ==
  LET pushed == Pushed("producer")
      n == Len(pushed)
  IN  /\ pc["producer"] \in {"push_store_slot", "push_publish"} =>
           write_index_ = loc["producer"].old_write_index
      /\ pc["producer"] = "push_publish" =>
           buffer_[loc["producer"].old_write_index] = loc["producer"].elem
      /\ size <= n
      /\ \A k \in 1 .. size : Contents[k] = pushed[n - size + k]

\* the producer has stored an element and not yet published it, the queue
\* holds an element behind a slot already popped, and the consumer is about
\* to compare its read index with write_index_
C26_Witness ==
  /\ pc["producer"] = "push_publish"
  /\ pc["consumer"] = "pop_check_empty"
  /\ read_index_ # 0
  /\ size >= 1

\* C27: with one producer and one consumer on a no_overwrite queue, under
\* every interleaving, the producer never writes a slot while the consumer
\* has selected that slot for a pop (loaded read_index_ and passed the empty
\* test) and not yet read it, although pop publishes the new read index
\* before it reads the slot.
C27_NoWriteToSelectedSlot ==
  [][(/\ pc["consumer"] \in {"pop_publish", "pop_move_slot"}
      /\ pc["producer"] = "push_store_slot"
      /\ pc'["producer"] # "push_store_slot")
       => loc["producer"].old_write_index # loc["consumer"].old_read_index]_vars

\* the consumer has published the new read index and not yet read its slot,
\* the queue was full when it did, and the producer, having seen the new read
\* index, is about to write a slot
C27_Witness ==
  /\ pc["consumer"] = "pop_move_slot"
  /\ pc["producer"] = "push_store_slot"
  /\ next_index(loc["producer"].new_write_index) = read_index_

\* C28: clear() called by the consumer while the producer pushes, on a
\* no_overwrite queue: the call returns (its compare_exchange_weak may fail
\* spuriously, but not for ever), and the value it leaves in read_index_ is
\* one write_index_ had between the call and its return: write_index_ only
\* moves forward, less than once around during the call, so these are the
\* indices from its value at the call up to its value at the return.
C28_ClearInstallsAWriteIndex ==
  /\ (pc["consumer"] # "idle") ~> (pc["consumer"] = "idle")
  /\ [][(pc["consumer"] = "clear_cas" /\ pc'["consumer"] = "idle") =>
          (buffer_size_ + read_index_' - loc["consumer"].write_index_at_call)
              % buffer_size_
            <= (buffer_size_ + write_index_
                  - loc["consumer"].write_index_at_call) % buffer_size_]_vars

\* clear() has failed an exchange and loaded write_index_ again after a push,
\* another push has returned since, and the exchange can now succeed
C28_Witness ==
  /\ pc["consumer"] = "clear_cas"
  /\ loc["consumer"].read_index = read_index_
  /\ loc["consumer"].desired # loc["consumer"].write_index_at_call
  /\ loc["consumer"].desired # write_index_

\* C29: clear() called by the producer while the consumer has a pop in
\* flight, on a no_overwrite queue, and no push after it: once clear() and
\* the pop have both returned the queue is empty.
C29_ProducerClearEmpties ==
  (/\ pc["producer"] = "idle"
   /\ pc["consumer"] = "idle"
   /\ Len(hist["producer"]) > 0
   /\ hist["producer"][Len(hist["producer"])].op = "clear")
    => empty

\* C30: in every reachable state, for either policy and every interleaving
\* of the producer, the consumer and clear(), read_index_ and write_index_
\* are within 0 .. queue_size; and every size() call, also one whose two
\* loads are separated by steps of the opposite thread, returns a value
\* within 0 .. queue_size.
C30_CursorsAndSizeInRange ==
  /\ read_index_ \in 0 .. queue_size
  /\ write_index_ \in 0 .. queue_size
  /\ \A t \in {"producer", "consumer"} :
       \A n \in 1 .. Len(hist[t]) :
         hist[t][n].op = "size" => hist[t][n].ret \in 0 .. queue_size

\* a size() call of the consumer has returned a value made of a write index
\* loaded before and a read index loaded after a step of the producer that
\* changed them both (an overwrite push)
C30_Witness ==
  /\ Len(hist["consumer"]) > 0
  /\ LET e == hist["consumer"][Len(hist["consumer"])]
     IN  /\ e.op = "size"
         /\ e.auto.old_write_index # write_index_
         /\ e.ret # size

\* C31: single-threaded, either policy: clear() leaves write_index_, every
\* slot of buffer_ and out as it found them, and called on an empty queue it
\* leaves read_index_ as well; the pushes that follow it write the slots from
\* that write index on, one after the other.
C31_ClearChangesOnlyReadIndex ==
  \A c \in 1 .. Len(H) :
    H[c].op = "clear" =>
      LET pre == H[c].pre
          post == IF c < Len(H) THEN H[c + 1].pre
                  ELSE IF Idle THEN Snapshot("main") ELSE snap["main"]
      IN  /\ post.write_index_ = pre.write_index_
          /\ post.buffer_ = pre.buffer_
          /\ post.out = pre.out
          /\ pre.empty => post.read_index_ = pre.read_index_
          /\ \A k \in 1 .. Len(H) - c :
               (\A j \in c + 1 .. c + k : H[j].op = "push" /\ H[j].ret) =>
                 LET slot == IF policy = "overwrite"
                               THEN H[c + k].auto.old_read_index
                               ELSE H[c + k].auto.old_write_index
                 IN  slot = (pre.write_index_ + k - 1) % buffer_size_

\* clear() found an element in the queue with the write index off slot 0, and
\* the two pushes after it have returned true
C31_Witness ==
  /\ Idle /\ Len(H) > 2
  /\ H[Len(H) - 2].op = "clear"
  /\ ~H[Len(H) - 2].pre.empty
  /\ H[Len(H) - 2].pre.write_index_ # 0
  /\ H[Len(H) - 1].op = "push" /\ H[Len(H) - 1].ret
  /\ Last.op = "push" /\ Last.ret

=========================================================================
